---- MODULE Spec2Model ----
(***************************************************************************)
(* MathEngine: the expression tree (EquationComponentType), its simplifier *)
(* and canonical orderer, PartEquation's operators and Equation::solve,    *)
(* over the exact Number type (src/src/number.rs, src/src/equation.rs).    *)
(***************************************************************************)
EXTENDS Integers, Sequences, FiniteSets, TLC

(***************************************************************************)
(* Bounds of the checked input space.                                      *)
(***************************************************************************)
\* integer literals offered to PartEquation::from range over MinConst..MaxConst
MaxConst == 3
MinConst == 0 - 1
\* numerators and denominators are represented up to this magnitude
MaxMagnitude == 1000000000
\* exact roots are searched up to this value
MaxRoot == 1000

(***************************************************************************)
(* Number (number.rs).  An Integer or Rational is the reduced fraction     *)
(* n/d with d > 0 and its representation tag t.  A Float is modelled by    *)
(* the exact value n/d when that value is a rational within MaxMagnitude.  *)
(* The tag "Unknown" stands for a Number outside what the model represents *)
(* (an irrational or infinite Float, a magnitude above MaxMagnitude); the  *)
(* tag "Panic" for a rug operation that does not return (division by an    *)
(* exact zero).                                                            *)
(***************************************************************************)
Abs(i) == IF i < 0 THEN 0 - i ELSE i

RECURSIVE Gcd(_, _)
Gcd(i, j) == IF j = 0 THEN i ELSE Gcd(j, i % j)

\* i * j, or a value of the same sign just above MaxMagnitude when the
\* product is not represented
Times(i, j) ==
    IF i = 0 \/ j = 0 THEN 0
    ELSE IF Abs(i) > MaxMagnitude \/ Abs(j) > MaxMagnitude
            \/ Abs(i) > MaxMagnitude \div Abs(j)
    THEN IF (i < 0) = (j < 0) THEN MaxMagnitude + 1 ELSE 0 - (MaxMagnitude + 1)
    ELSE i * j

\* the reduced fraction n/d (d # 0) under representation t
Reduced(t, n, d) ==
    LET g == Gcd(Abs(n), Abs(d))
        s == IF d < 0 THEN 0 - 1 ELSE 1
    IN  IF Abs(n) > MaxMagnitude \/ Abs(d) > MaxMagnitude
        THEN [t |-> "Unknown", n |-> 0, d |-> 1]
        ELSE [t |-> t, n |-> (s * n) \div g, d |-> (s * d) \div g]

Integer(i) == [t |-> "Integer", n |-> i, d |-> 1]
Rational(n, d) == Reduced("Rational", n, d)
Float(n, d) == Reduced("Float", n, d)
PanicNumber == [t |-> "Panic", n |-> 0, d |-> 1]
UnknownNumber == [t |-> "Unknown", n |-> 0, d |-> 1]

IsPanicNumber(x) == x.t = "Panic"
IsUnknownNumber(x) == x.t = "Unknown"
IsExact(x) == x.t \in {"Integer", "Rational", "Float"}

\* a promotion that takes the representation of the left operand
PromoteLeft(x, y) == x.t

\* promotion table shared by the Add, Sub, Mul and Div impls
Promote(x, y) ==
    IF x.t = "Float" \/ y.t = "Float" THEN "Float"
    ELSE IF x.t = "Rational" \/ y.t = "Rational" THEN "Rational"
    ELSE "Integer"

\* an arithmetic result on operands one of which did not return or is unknown
Absorb(x, y) ==
    IF IsPanicNumber(x) \/ IsPanicNumber(y) THEN PanicNumber ELSE UnknownNumber

\* the cross products of x and y are within the represented magnitudes
Comparable(x, y) ==
    Abs(Times(x.n, y.d)) <= MaxMagnitude /\ Abs(Times(y.n, x.d)) <= MaxMagnitude

NumAdd(x, y) ==
    IF ~(IsExact(x) /\ IsExact(y)) THEN Absorb(x, y)
    ELSE IF ~Comparable(x, y) THEN UnknownNumber
    ELSE Reduced(Promote(x, y), x.n * y.d + y.n * x.d, Times(x.d, y.d))

NumSub(x, y) ==
    IF ~(IsExact(x) /\ IsExact(y)) THEN Absorb(x, y)
    ELSE IF ~Comparable(x, y) THEN UnknownNumber
    ELSE Reduced(Promote(x, y), x.n * y.d - y.n * x.d, Times(x.d, y.d))

NumMul(x, y) ==
    IF ~(IsExact(x) /\ IsExact(y)) THEN Absorb(x, y)
    ELSE Reduced(Promote(x, y), Times(x.n, y.n), Times(x.d, y.d))

NumNeg(x) == IF ~IsExact(x) THEN x ELSE [x EXCEPT !.n = 0 - x.n]

\* impl Div<Number> for Number: Integer / Integer is Rational::from((l, r))
NumDiv(x, y) ==
    IF ~(IsExact(x) /\ IsExact(y)) THEN Absorb(x, y)
    ELSE IF y.n = 0
         THEN IF Promote(x, y) = "Float" THEN UnknownNumber ELSE PanicNumber
    ELSE Reduced(IF Promote(x, y) = "Integer" THEN "Rational" ELSE Promote(x, y),
                 Times(x.n, y.d), Times(x.d, y.n))

\* impl Div<&Number> for &Number: Integer / Integer is rug's truncating division
TruncDiv(i, j) ==
    LET q == Abs(i) \div Abs(j)
    IN  IF (i < 0) = (j < 0) THEN q ELSE 0 - q

NumDivRef(x, y) ==
    IF ~(IsExact(x) /\ IsExact(y)) THEN Absorb(x, y)
    ELSE IF y.n = 0
         THEN IF Promote(x, y) = "Float" THEN UnknownNumber ELSE PanicNumber
    ELSE IF Promote(x, y) = "Integer" THEN Integer(TruncDiv(x.n, y.n))
    ELSE Reduced(Promote(x, y), Times(x.n, y.d), Times(x.d, y.n))

\* impl Div<i32> / Div<i64> for Number: the divisor is a primitive integer j;
\* Integer / j is rug's truncating division, Rational / j stays exact
NumDivPrimitive(x, j) ==
    IF ~IsExact(x) THEN Absorb(x, Integer(j))
    ELSE IF j = 0 THEN PanicNumber
    ELSE IF x.t = "Integer" THEN Integer(TruncDiv(x.n, j))
    ELSE Reduced("Rational", x.n, Times(x.d, j))

\* impl PartialEq / PartialOrd for Number: by value, across representations
NumEq(x, y) == IsExact(x) /\ IsExact(y) /\ x.n = y.n /\ x.d = y.d
NumLt(x, y) == Times(x.n, y.d) < Times(y.n, x.d)

\* b^e for e >= 0, saturating just above MaxMagnitude
RECURSIVE IntPow(_, _)
IntPow(b, e) ==
    IF e <= 0 THEN 1
    ELSE Times(b, IntPow(b, e - 1))

\* Number::pow_integer / Number::pow_rational: result starts at base and is
\* multiplied by base while count (from 1) is below the exponent.  Where two
\* more multiplications give result back (base 0, 1 or -1) the remaining
\* iterations are taken in one step, by their parity.
RECURSIVE PowLoop(_, _, _, _)
PowLoop(result, base, count, exponent) ==
    IF count < exponent /\ IsExact(result)
    THEN IF NumMul(NumMul(result, base), base) = result
         THEN IF (exponent - count) % 2 = 0 THEN result ELSE NumMul(result, base)
         ELSE PowLoop(NumMul(result, base), base, count + 1, exponent)
    ELSE result

pow_integer(base, exponent) == PowLoop(Integer(base), Integer(base), 1, exponent)
pow_rational(base, exponent) == PowLoop(base, base, 1, exponent)

\* q is a power of two: 1/q is a binary fraction, which a Float holds exactly
Dyadic(q) == \E i \in 1..30 : IntPow(2, i) = q

\* Number::pow_float (rug Float::pow): the mathematical power; exact in the
\* model for integer exponents and for exact integer roots whose exponent is a
\* binary fraction (the correctly rounded power is then the root itself),
\* Unknown otherwise
pow_float(b, e) ==
    IF e.d = 1
    THEN IF e.n >= 0
         THEN Float(IntPow(b.n, e.n), IntPow(b.d, e.n))
         ELSE IF b.n = 0 THEN UnknownNumber
              ELSE Float(IntPow(b.d, 0 - e.n), IntPow(b.n, 0 - e.n))
    ELSE IF b.d = 1 /\ b.n >= 0 /\ e.n > 0 /\ Dyadic(e.d)
            /\ IntPow(b.n, e.n) <= MaxMagnitude
            /\ \E r \in 0..MaxRoot : IntPow(r, e.d) = IntPow(b.n, e.n)
         THEN Float(CHOOSE r \in 0..MaxRoot : IntPow(r, e.d) = IntPow(b.n, e.n), 1)
         ELSE UnknownNumber

\* Number::pow
NumPow(b, e) ==
    IF ~(IsExact(b) /\ IsExact(e)) THEN Absorb(b, e)
    ELSE IF b.t = "Float" \/ e.t = "Float" THEN pow_float(b, e)
    ELSE IF e.d # 1 THEN pow_float(b, e)
    ELSE IF b.d = 1 THEN pow_integer(b.n, e.n)
    ELSE IF e.t = "Integer" THEN pow_rational(b, e.n)
    ELSE pow_float(b, e)

(***************************************************************************)
(* EquationComponentType (equation.rs:10-39).  The two operands of every   *)
(* binary node are the fields lhs and rhs (numerator/denominator of a      *)
(* DivNode, base/exponent of a PowNode, base/argument of a LogNode).       *)
(* Panic is the outcome of a call that does not return, Unknown that of a  *)
(* call whose Numbers the model does not represent.                        *)
(***************************************************************************)
ConstantNode(i) == [k |-> "ConstantNode", num |-> i]
VariableNode(c) == [k |-> "VariableNode", name |-> c]
MinusNode(x) == [k |-> "MinusNode", value |-> x]
Panic == [k |-> "Panic"]
Unknown == [k |-> "Unknown"]

IsPanic(e) == e.k = "Panic"
\* no tree was returned
Stopped(e) == e.k \in {"Panic", "Unknown"}
\* the outcome of a computation one of whose steps l, r stopped
Stop(l, r) == IF l.k = "Unknown" \/ r.k = "Unknown" THEN Unknown ELSE Panic
IsConstant(e) == e.k = "ConstantNode"
IsVariable(e) == e.k = "VariableNode"
BinaryKinds == {"AddNode", "SubNode", "MulNode", "DivNode", "PowNode", "LogNode"}
IsBinary(e) == e.k \in BinaryKinds

\* construction of a node from operands already computed: a panic in the
\* computation of an operand unwinds through the construction
Node(kind, l, r) ==
    IF Stopped(l) \/ Stopped(r) THEN Stop(l, r) ELSE [k |-> kind, lhs |-> l, rhs |-> r]
AddNode(l, r) == Node("AddNode", l, r)
SubNode(l, r) == Node("SubNode", l, r)
MulNode(l, r) == Node("MulNode", l, r)
DivNode(l, r) == Node("DivNode", l, r)
PowNode(l, r) == Node("PowNode", l, r)
LogNode(l, r) == Node("LogNode", l, r)
Negated(x) == IF Stopped(x) THEN x ELSE MinusNode(x)
Constant(i) ==
    IF IsPanicNumber(i) THEN Panic
    ELSE IF IsUnknownNumber(i) THEN Unknown
    ELSE ConstantNode(i)

\* #[derive(PartialEq)] on EquationComponentType: structural, with
\* ConstantNode compared by Number's cross-representation equality
RECURSIVE TreeEq(_, _)
TreeEq(x, y) ==
    IF x.k # y.k THEN FALSE
    ELSE CASE x.k = "ConstantNode" -> NumEq(x.num, y.num)
           [] x.k = "VariableNode" -> x.name = y.name
           [] x.k = "MinusNode" -> TreeEq(x.value, y.value)
           [] x.k \in {"Panic", "Unknown"} -> FALSE
           [] OTHER -> TreeEq(x.lhs, y.lhs) /\ TreeEq(x.rhs, y.rhs)

(***************************************************************************)
(* std::collections::HashMap<char, _>: iteration visits the keys in an     *)
(* order fixed by the map's hasher, not by insertion.  h is the order in   *)
(* which the hasher of a call ranks the variable letters.                  *)
(***************************************************************************)
IterOrder(keys, h) == SelectSeq(h, LAMBDA c : c \in keys)

SeqToSet(s) == {s[i] : i \in DOMAIN s}
Count(s, c) == Cardinality({i \in DOMAIN s : s[i] = c})

RECURSIVE FoldNum(_, _, _)
\* constants.iter().for_each(|x| constant = &constant (+|*) x)
FoldNum(kind, acc, s) ==
    IF s = <<>> THEN acc
    ELSE FoldNum(kind,
                 IF kind = "AddNode" THEN NumAdd(acc, Head(s)) ELSE NumMul(acc, Head(s)),
                 Tail(s))

EmptyExtract == [variables |-> <<>>, constants |-> <<>>, nodes |-> <<>>, stop |-> <<>>]
JoinExtract(p, q) ==
    [variables |-> p.variables \o q.variables, constants |-> p.constants \o q.constants,
     nodes |-> p.nodes \o q.nodes, stop |-> p.stop \o q.stop]

\* first pass over the per-variable counts (equation.rs:119-139 / 324-346)
CountedNode(kind, c, n) ==
    IF n > 1
    THEN IF kind = "AddNode"
         THEN MulNode(VariableNode(c), ConstantNode(Integer(n)))
         ELSE PowNode(VariableNode(c), ConstantNode(Integer(n)))
    ELSE VariableNode(c)

CountedNodes(kind, variables, h) ==
    LET ks == IterOrder(SeqToSet(variables), h)
    IN  [i \in DOMAIN ks |-> CountedNode(kind, ks[i], Count(variables, ks[i]))]

\* the like term a node contributes to variable_occurrence in the retain
\* closure: [var, coef], or var = "" when the node is retained
NoTerm == [var |-> "", coef |-> Integer(0)]
LikeTerm(kind, node) ==
    IF kind = "AddNode"
    THEN IF node.k = "MulNode" /\ IsVariable(node.lhs) /\ IsConstant(node.rhs)
         THEN [var |-> node.lhs.name, coef |-> node.rhs.num]
         ELSE IF node.k = "MulNode" /\ ~IsVariable(node.lhs)
                 /\ IsVariable(node.rhs) /\ IsConstant(node.lhs)
         THEN [var |-> node.rhs.name, coef |-> node.lhs.num]
         ELSE IF IsVariable(node) THEN [var |-> node.name, coef |-> Integer(1)]
         ELSE IF node.k = "MinusNode" /\ IsVariable(node.value)
         THEN [var |-> node.value.name, coef |-> Integer(0 - 1)]
         ELSE NoTerm
    ELSE IF node.k = "PowNode" /\ IsVariable(node.lhs) /\ IsConstant(node.rhs)
         THEN [var |-> node.lhs.name, coef |-> node.rhs.num]
         ELSE IF IsVariable(node) THEN [var |-> node.name, coef |-> Integer(1)]
         ELSE NoTerm

\* a retain closure that inserts the coefficient of the node it visits
\* without adding the one already in the map
RECURSIVE RetainLast(_, _, _, _)
RetainLast(kind, s, occ, kept) ==
    IF s = <<>> THEN [occ |-> occ, kept |-> kept]
    ELSE LET t == LikeTerm(kind, Head(s))
         IN  IF t.var = "" THEN RetainLast(kind, Tail(s), occ, Append(kept, Head(s)))
             ELSE RetainLast(kind, Tail(s),
                             [c \in DOMAIN occ \cup {t.var} |->
                                IF c = t.var THEN t.coef ELSE occ[c]],
                             kept)

\* variables_nodes.retain(..): occ is variable_occurrence, kept the retained nodes
RECURSIVE Retain(_, _, _, _)
Retain(kind, s, occ, kept) ==
    IF s = <<>> THEN [occ |-> occ, kept |-> kept]
    ELSE LET t == LikeTerm(kind, Head(s))
         IN  IF t.var = "" THEN Retain(kind, Tail(s), occ, Append(kept, Head(s)))
             ELSE Retain(kind, Tail(s),
                         [c \in DOMAIN occ \cup {t.var} |->
                            IF c = t.var
                            THEN IF c \in DOMAIN occ THEN NumAdd(occ[c], t.coef) ELSE t.coef
                            ELSE occ[c]],
                         kept)

\* second pass: one node per key of variable_occurrence (equation.rs:231-242 / 398-409)
MergedNode(kind, c, o) ==
    IF ~NumEq(o, Integer(1))
    THEN IF kind = "AddNode"
         THEN MulNode(VariableNode(c), ConstantNode(o))
         ELSE PowNode(VariableNode(c), ConstantNode(o))
    ELSE VariableNode(c)

MergedNodes(kind, occ, h) ==
    LET ks == IterOrder(DOMAIN occ, h)
    IN  [i \in DOMAIN ks |-> MergedNode(kind, ks[i], occ[ks[i]])]

RECURSIVE simplify(_, _)
RECURSIVE extract(_, _)
RECURSIVE Chain(_, _, _, _)

\* one operand of the chain in extract (equation.rs:786-803)
ExtractOperand(kind, n, h) ==
    IF IsConstant(n) THEN [EmptyExtract EXCEPT !.constants = <<n.num>>]
    ELSE IF IsVariable(n) THEN [EmptyExtract EXCEPT !.variables = <<n.name>>]
    ELSE IF n.k = kind THEN extract(n, h)
    ELSE LET m == simplify(n, h)
         IN  IF Stopped(m) THEN [EmptyExtract EXCEPT !.stop = <<m>>]
             ELSE IF IsConstant(m) THEN [EmptyExtract EXCEPT !.constants = <<m.num>>]
             ELSE IF IsVariable(m) THEN [EmptyExtract EXCEPT !.variables = <<m.name>>]
             ELSE IF m.k = kind THEN extract(m, h)
             ELSE [EmptyExtract EXCEPT !.nodes = <<m>>]

\* EquationComponentType::extract on an AddNode or a MulNode
extract(e, h) ==
    JoinExtract(ExtractOperand(e.k, e.lhs, h), ExtractOperand(e.k, e.rhs, h))

\* the loop of pops that nests the remaining nodes around base_node
Chain(kind, s, base_node, h) ==
    IF s = <<>> THEN base_node
    ELSE Chain(kind, SubSeq(s, 1, Len(s) - 1),
               Node(kind, simplify(s[Len(s)], h), base_node), h)

\* reassembly of the chain (equation.rs:247-286 / 414-452)
Reassemble(kind, constant, neutral, s, h) ==
    IF Len(s) = 0 THEN ConstantNode(constant)
    ELSE IF Len(s) = 1
    THEN IF neutral THEN simplify(s[1], h)
         ELSE Node(kind, ConstantNode(constant), simplify(s[1], h))
    ELSE LET base_node == Chain(kind, SubSeq(s, 1, Len(s) - 2),
                                Node(kind, simplify(s[Len(s)], h),
                                     simplify(s[Len(s) - 1], h)), h)
         IN  IF neutral THEN base_node
             ELSE Node(kind, ConstantNode(constant), base_node)

\* the AddNode and MulNode arms of simplify
SimplifyChain(e, h) ==
    LET kind == e.k
        ex == extract(e, h)
        constant == FoldNum(kind, IF kind = "AddNode" THEN Integer(0) ELSE Integer(1),
                            ex.constants)
        neutral == NumEq(constant, IF kind = "AddNode" THEN Integer(0) ELSE Integer(1))
        first == CountedNodes(kind, ex.variables, h) \o ex.nodes
        r == Retain(kind, first, <<>>, <<>>)
        variables_nodes == r.kept \o MergedNodes(kind, r.occ, h)
    IN  IF ex.stop # <<>>
        THEN IF Unknown \in SeqToSet(ex.stop) THEN Unknown ELSE Panic
        ELSE IF IsUnknownNumber(constant) THEN Unknown
        ELSE IF \E c \in DOMAIN r.occ : IsUnknownNumber(r.occ[c]) THEN Unknown
        ELSE IF kind = "MulNode" /\ NumEq(constant, Integer(0))
        THEN ConstantNode(Integer(0))
        ELSE Reassemble(kind, constant, neutral, variables_nodes, h)

\* the PowNode arm of simplify
SimplifyPow(e, h) ==
    LET base == simplify(e.lhs, h)
        exponent == simplify(e.rhs, h)
    IN  IF Stopped(base) \/ Stopped(exponent) THEN Stop(base, exponent)
        ELSE IF IsConstant(exponent) /\ NumEq(exponent.num, Integer(1))
        THEN simplify(base, h)
        ELSE IF base.k = "PowNode"
        THEN PowNode(base.lhs, MulNode(base.rhs, exponent))
        ELSE IF IsConstant(base) /\ IsConstant(exponent)
        THEN Constant(NumPow(base.num, exponent.num))
        ELSE PowNode(base, exponent)

\* the MinusNode arm of simplify
SimplifyMinus(e, h) ==
    LET value == simplify(e.value, h)
    IN  CASE Stopped(value) -> value
          [] value.k = "ConstantNode" -> ConstantNode(NumNeg(value.num))
          [] value.k = "AddNode" ->
                simplify(AddNode(MinusNode(value.lhs), MinusNode(value.rhs)), h)
          [] value.k = "SubNode" ->
                simplify(SubNode(MinusNode(value.lhs), MinusNode(value.rhs)), h)
          [] value.k = "MulNode" ->
                simplify(MulNode(MinusNode(value.lhs), value.rhs), h)
          [] value.k = "DivNode" ->
                simplify(DivNode(MinusNode(value.lhs), value.rhs), h)
          [] value.k = "MinusNode" -> value.value
          [] OTHER -> Negated(simplify(value, h))

\* a simplify whose SubNode arm keeps the subtraction
simplifySubKept(e, h) ==
    CASE Stopped(e) -> e
      [] e.k \in {"ConstantNode", "VariableNode"} -> e
      [] e.k \in {"AddNode", "MulNode"} -> SimplifyChain(e, h)
      [] e.k = "SubNode" ->
            LET lhs == simplify(e.lhs, h)
                rhs == simplify(e.rhs, h)
            IN  IF Stopped(lhs) \/ Stopped(rhs) THEN Stop(lhs, rhs)
                ELSE SubNode(lhs, rhs)
      [] e.k = "DivNode" ->
            LET numerator == simplify(e.lhs, h)
                denominator == simplify(e.rhs, h)
            IN  IF Stopped(numerator) \/ Stopped(denominator)
                THEN Stop(numerator, denominator)
                ELSE IF IsConstant(numerator) /\ IsConstant(denominator)
                THEN Constant(NumDiv(numerator.num, denominator.num))
                ELSE DivNode(numerator, denominator)
      [] e.k = "PowNode" -> SimplifyPow(e, h)
      [] e.k = "LogNode" -> LogNode(simplify(e.lhs, h), simplify(e.rhs, h))
      [] e.k = "MinusNode" -> SimplifyMinus(e, h)

\* EquationComponentType::simplify
simplify(e, h) ==
    CASE Stopped(e) -> e
      [] e.k = "ConstantNode" -> e
      [] e.k = "VariableNode" -> e
      [] e.k \in {"AddNode", "MulNode"} -> SimplifyChain(e, h)
      [] e.k = "SubNode" ->
            LET lhs == simplify(e.lhs, h)
                rhs == simplify(e.rhs, h)
            IN  IF Stopped(lhs) \/ Stopped(rhs) THEN Stop(lhs, rhs)
                ELSE simplify(AddNode(lhs, simplify(MinusNode(rhs), h)), h)
      [] e.k = "DivNode" ->
            LET numerator == simplify(e.lhs, h)
                denominator == simplify(e.rhs, h)
            IN  IF Stopped(numerator) \/ Stopped(denominator)
                THEN Stop(numerator, denominator)
                ELSE IF IsConstant(numerator) /\ IsConstant(denominator)
                THEN Constant(NumDiv(numerator.num, denominator.num))
                ELSE DivNode(numerator, denominator)
      [] e.k = "PowNode" -> SimplifyPow(e, h)
      [] e.k = "LogNode" -> LogNode(simplify(e.lhs, h), simplify(e.rhs, h))
      [] e.k = "MinusNode" -> SimplifyMinus(e, h)

(***************************************************************************)
(* Canonical ordering (equation.rs:587-732).                               *)
(***************************************************************************)
\* (*i) as u32 for the letters used in the model
CharCode(c) ==
    CASE c = "x" -> 120
      [] c = "y" -> 121
      [] c = "P" -> 80
      [] OTHER -> 0

\* the todo!() of the LogNode arm does not return
RECURSIVE calculate_weight(_)
calculate_weight(e) ==
    CASE e.k = "ConstantNode" -> e.num
      [] e.k = "VariableNode" -> Integer(CharCode(e.name))
      [] e.k = "AddNode" -> NumAdd(calculate_weight(e.lhs), calculate_weight(e.rhs))
      [] e.k = "SubNode" -> NumSub(calculate_weight(e.lhs), calculate_weight(e.rhs))
      [] e.k = "MulNode" -> NumMul(calculate_weight(e.lhs), calculate_weight(e.rhs))
      [] e.k = "DivNode" -> NumDiv(calculate_weight(e.lhs), calculate_weight(e.rhs))
      [] e.k = "PowNode" -> NumPow(calculate_weight(e.lhs), calculate_weight(e.rhs))
      [] e.k = "LogNode" -> PanicNumber
      [] e.k = "MinusNode" -> NumNeg(calculate_weight(e.value))
      [] OTHER -> PanicNumber

\* the inner loop of the sort closure: the index of the first greatest weight
\* among positions i..Len(weights), scanning j upwards
RECURSIVE Highest(_, _, _)
Highest(weights, highest, j) ==
    IF j > Len(weights) THEN highest
    ELSE Highest(weights,
                 IF NumLt(weights[highest], weights[j]) THEN j ELSE highest,
                 j + 1)

Swap(s, i, j) == [s EXCEPT ![i] = s[j], ![j] = s[i]]

\* the sort closure of order: a selection sort by descending weight that
\* swaps position i with the position of the greatest remaining weight
RECURSIVE sort(_, _, _)
sort(terms, weights, i) ==
    IF i > Len(terms) THEN terms
    ELSE LET hi == Highest(weights, i, i + 1)
         IN  IF hi # i THEN sort(Swap(terms, i, hi), Swap(weights, i, hi), i + 1)
             ELSE sort(terms, weights, i + 1)

\* construct_from_terms / construct_from_products: a right-leaning chain
RECURSIVE construct_from(_, _)
construct_from(kind, terms) ==
    IF Len(terms) = 0 THEN ConstantNode(Integer(0))
    ELSE IF Len(terms) = 1 THEN terms[1]
    ELSE Node(kind, Head(terms), construct_from(kind, Tail(terms)))

RECURSIVE order(_)
RECURSIVE separate(_, _)

\* separate_terms / separate_products: the operands of the chain, each ordered
separate(kind, e) ==
    IF e.k = kind THEN separate(kind, e.lhs) \o separate(kind, e.rhs)
    ELSE <<order(e)>>

\* the AddNode and MulNode arms of order
OrderChain(e) ==
    LET terms == separate(e.k, e.lhs) \o separate(e.k, e.rhs)
        weights == [i \in DOMAIN terms |->
                      IF terms[i].k = "Unknown" THEN UnknownNumber
                      ELSE IF IsPanic(terms[i]) THEN PanicNumber
                      ELSE calculate_weight(terms[i])]
    IN  IF \E i \in DOMAIN terms : IsUnknownNumber(weights[i]) THEN Unknown
        ELSE IF \E i \in DOMAIN terms : IsPanicNumber(weights[i]) THEN Panic
        ELSE IF \E i, j \in DOMAIN terms : ~Comparable(weights[i], weights[j]) THEN Unknown
        ELSE construct_from(e.k, sort(terms, weights, 1))

\* EquationComponentType::order
order(e) ==
    CASE Stopped(e) -> e
      [] e.k = "ConstantNode" -> e
      [] e.k = "VariableNode" -> e
      [] e.k \in {"AddNode", "MulNode"} -> OrderChain(e)
      [] e.k = "MinusNode" -> Negated(order(e.value))
      [] OTHER -> Node(e.k, order(e.lhs), order(e.rhs))

(***************************************************************************)
(* PartEquation (equation.rs:871-1017, 1397-2089): every constructor       *)
(* except From hands the raw node to simplify and then to order.           *)
(***************************************************************************)
\* PartEquation::simplify
Normalize(e, h) == order(simplify(e, h))

\* impl ops::Add / Sub / Mul / Div for PartEquation, PartEquation::pow
PartAdd(l, r, h) == Normalize(AddNode(l, r), h)
PartSub(l, r, h) == Normalize(SubNode(l, r), h)
PartMul(l, r, h) == Normalize(MulNode(l, r), h)
PartDiv(l, r, h) == Normalize(DivNode(l, r), h)
PartPow(l, r, h) == Normalize(PowNode(l, r), h)
\* impl ops::Neg for PartEquation
PartNeg(l, h) == Normalize(MinusNode(l), h)

\* impl PartialEq for PartEquation; each side is simplified under its own maps
PartEq(l, r, hl, hr) == TreeEq(Normalize(l, hl), Normalize(r, hr))

\* a substitute that descends only into the left operand of a binary node
RECURSIVE substituteLeft(_, _, _)
substituteLeft(e, variable, value) ==
    CASE e.k = "ConstantNode" -> e
      [] e.k = "VariableNode" -> IF e.name = variable THEN value ELSE e
      [] e.k = "MinusNode" -> MinusNode(substituteLeft(e.value, variable, value))
      [] Stopped(e) -> e
      [] OTHER -> Node(e.k, substituteLeft(e.lhs, variable, value), e.rhs)

\* EquationComponentType::substitute
RECURSIVE substitute(_, _, _)
substitute(e, variable, value) ==
    CASE e.k = "ConstantNode" -> e
      [] e.k = "VariableNode" -> IF e.name = variable THEN value ELSE e
      [] e.k = "MinusNode" -> MinusNode(substitute(e.value, variable, value))
      [] Stopped(e) -> e
      [] OTHER -> Node(e.k, substitute(e.lhs, variable, value),
                       substitute(e.rhs, variable, value))

\* PartEquation::substitute
PartSubstitute(e, variable, value, h) == Normalize(substitute(e, variable, value), h)

(***************************************************************************)
(* Equation (equation.rs:1019-1389).                                       *)
(***************************************************************************)
\* Equation::count_occurrences
RECURSIVE count_occurrences(_, _)
count_occurrences(eq, variable) ==
    CASE eq.k = "VariableNode" -> IF eq.name = variable THEN 1 ELSE 0
      [] eq.k = "ConstantNode" -> 0
      [] Stopped(eq) -> 0
      [] eq.k = "MinusNode" -> count_occurrences(eq.value, variable)
      [] OTHER -> count_occurrences(eq.lhs, variable) + count_occurrences(eq.rhs, variable)

\* the AntiOperations pushed for a node kind when the variable is found in
\* the first operand (InLhs) or in the second one (InRhs)
InLhs(kind) ==
    CASE kind = "AddNode" -> "SubRHS"
      [] kind = "SubNode" -> "AddRHS"
      [] kind = "MulNode" -> "DivRHS"
      [] kind = "DivNode" -> "MulDenominator"
      [] kind = "PowNode" -> "PowRHS"
      [] kind = "LogNode" -> "LogRHS"

\* for the second operand, the anti-operation of the first
InRhsAsLhs(kind) == InLhs(kind)

InRhs(kind) ==
    CASE kind = "AddNode" -> "SubLHS"
      [] kind = "SubNode" -> "AddLHS"
      [] kind = "MulNode" -> "DivLHS"
      [] kind = "DivNode" -> "MulNumerator"
      [] kind = "PowNode" -> "LogLHS"
      [] kind = "LogNode" -> "PowLHS"

NotFound == [found |-> FALSE, list |-> <<>>]

\* Equation::make_anti_operations_list: the return value and the pushes
RECURSIVE make_anti_operations_list(_, _)
make_anti_operations_list(eq, variable) ==
    CASE eq.k = "VariableNode" -> [found |-> eq.name = variable, list |-> <<>>]
      [] eq.k = "ConstantNode" -> NotFound
      [] Stopped(eq) -> NotFound
      [] eq.k = "MinusNode" ->
            LET m == make_anti_operations_list(eq.value, variable)
            IN  IF m.found THEN [found |-> TRUE, list |-> Append(m.list, "Minus")]
                ELSE NotFound
      [] OTHER ->
            LET l == make_anti_operations_list(eq.lhs, variable)
                r == make_anti_operations_list(eq.rhs, variable)
            IN  IF l.found THEN [found |-> TRUE, list |-> Append(l.list, InLhs(eq.k))]
                ELSE IF r.found THEN [found |-> TRUE, list |-> Append(r.list, InRhs(eq.k))]
                ELSE NotFound

One == ConstantNode(Integer(1))
InternalError == [status |-> "InternalError", eq |-> Panic, result |-> Panic]

\* a replay step whose power arms leave out the reciprocal and exchange the
\* operands of the logarithm
InversePowerPlain(op, eq, result) ==
    LET step(kind, next, res) ==
            IF eq.k = kind THEN [status |-> "Ok", eq |-> next, result |-> res]
            ELSE InternalError
    IN  CASE op = "AddLHS" -> step("SubNode", eq.rhs, AddNode(result, MinusNode(eq.lhs)))
          [] op = "AddRHS" -> step("SubNode", eq.lhs, AddNode(result, eq.rhs))
          [] op = "SubLHS" -> step("AddNode", eq.rhs, SubNode(result, eq.lhs))
          [] op = "SubRHS" -> step("AddNode", eq.lhs, SubNode(result, eq.rhs))
          [] op = "MulNumerator" -> step("DivNode", eq.rhs, DivNode(eq.lhs, result))
          [] op = "MulDenominator" -> step("DivNode", eq.lhs, MulNode(result, eq.rhs))
          [] op = "DivLHS" -> step("MulNode", eq.rhs, DivNode(result, eq.lhs))
          [] op = "DivRHS" -> step("MulNode", eq.lhs, DivNode(result, eq.rhs))
          [] op = "PowLHS" -> step("LogNode", eq.rhs, PowNode(eq.lhs, result))
          [] op = "PowRHS" -> step("PowNode", eq.lhs, PowNode(result, eq.rhs))
          [] op = "LogLHS" -> step("PowNode", eq.rhs, LogNode(result, eq.lhs))
          [] op = "LogRHS" -> step("PowNode", eq.lhs, PowNode(eq.rhs, DivNode(One, result)))
          [] op = "Minus" ->
                IF eq.k = "MinusNode"
                THEN [status |-> "Ok", eq |-> eq.value, result |-> MinusNode(result)]
                ELSE InternalError

\* a replay step whose division arms exchange the roles of the operands
InverseDivisionReversed(op, eq, result) ==
    LET step(kind, next, res) ==
            IF eq.k = kind THEN [status |-> "Ok", eq |-> next, result |-> res]
            ELSE InternalError
    IN  CASE op = "AddLHS" -> step("SubNode", eq.rhs, AddNode(result, MinusNode(eq.lhs)))
          [] op = "AddRHS" -> step("SubNode", eq.lhs, AddNode(result, eq.rhs))
          [] op = "SubLHS" -> step("AddNode", eq.rhs, SubNode(result, eq.lhs))
          [] op = "SubRHS" -> step("AddNode", eq.lhs, SubNode(result, eq.rhs))
          [] op = "MulNumerator" -> step("DivNode", eq.rhs, DivNode(result, eq.lhs))
          [] op = "MulDenominator" -> step("DivNode", eq.lhs, DivNode(result, eq.rhs))
          [] op = "DivLHS" -> step("MulNode", eq.rhs, DivNode(result, eq.lhs))
          [] op = "DivRHS" -> step("MulNode", eq.lhs, DivNode(result, eq.rhs))
          [] op = "PowLHS" -> step("LogNode", eq.rhs, PowNode(eq.lhs, result))
          [] op = "PowRHS" -> step("PowNode", eq.lhs, PowNode(result, DivNode(One, eq.rhs)))
          [] op = "LogLHS" -> step("PowNode", eq.rhs, LogNode(eq.lhs, result))
          [] op = "LogRHS" -> step("PowNode", eq.lhs, PowNode(eq.rhs, DivNode(One, result)))
          [] op = "Minus" ->
                IF eq.k = "MinusNode"
                THEN [status |-> "Ok", eq |-> eq.value, result |-> MinusNode(result)]
                ELSE InternalError

\* one iteration of the replay loop of do_inverse: the anti-operation op
\* applied at the subtree eq with the running result
Inverse(op, eq, result) ==
    LET step(kind, next, res) ==
            IF eq.k = kind THEN [status |-> "Ok", eq |-> next, result |-> res]
            ELSE InternalError
    IN  CASE op = "AddLHS" -> step("SubNode", eq.rhs, AddNode(result, MinusNode(eq.lhs)))
          [] op = "AddRHS" -> step("SubNode", eq.lhs, AddNode(result, eq.rhs))
          [] op = "SubLHS" -> step("AddNode", eq.rhs, SubNode(result, eq.lhs))
          [] op = "SubRHS" -> step("AddNode", eq.lhs, SubNode(result, eq.rhs))
          [] op = "MulNumerator" -> step("DivNode", eq.rhs, DivNode(eq.lhs, result))
          [] op = "MulDenominator" -> step("DivNode", eq.lhs, MulNode(result, eq.rhs))
          [] op = "DivLHS" -> step("MulNode", eq.rhs, DivNode(result, eq.lhs))
          [] op = "DivRHS" -> step("MulNode", eq.lhs, DivNode(result, eq.rhs))
          [] op = "PowLHS" -> step("LogNode", eq.rhs, PowNode(eq.lhs, result))
          [] op = "PowRHS" -> step("PowNode", eq.lhs, PowNode(result, DivNode(One, eq.rhs)))
          [] op = "LogLHS" -> step("PowNode", eq.rhs, LogNode(eq.lhs, result))
          [] op = "LogRHS" -> step("PowNode", eq.lhs, PowNode(eq.rhs, DivNode(One, result)))
          [] op = "Minus" ->
                IF eq.k = "MinusNode"
                THEN [status |-> "Ok", eq |-> eq.value, result |-> MinusNode(result)]
                ELSE InternalError

\* the replay loop: anti_ops is popped from its end
RECURSIVE Replay(_, _, _)
Replay(anti_ops, eq, result) ==
    IF anti_ops = <<>> THEN [status |-> "Ok", eq |-> eq, result |-> result]
    ELSE LET s == Inverse(anti_ops[Len(anti_ops)], eq, result)
         IN  IF s.status # "Ok" THEN s
             ELSE Replay(SubSeq(anti_ops, 1, Len(anti_ops) - 1), s.eq, s.result)

\* a do_inverse that returns the replayed result as it was built
do_inverseRaw(eq, variable, h) ==
    LET anti_ops == make_anti_operations_list(eq, variable).list
        r == Replay(anti_ops, eq, ConstantNode(Integer(0)))
    IN  IF r.status # "Ok" THEN [status |-> r.status, eq |-> Panic]
        ELSE [status |-> "Ok", eq |-> r.result]

\* Equation::do_inverse
do_inverse(eq, variable, h) ==
    LET anti_ops == make_anti_operations_list(eq, variable).list
        r == Replay(anti_ops, eq, ConstantNode(Integer(0)))
        answer == Normalize(r.result, h)
    IN  IF r.status # "Ok" THEN [status |-> r.status, eq |-> Panic]
        ELSE IF Stopped(answer) THEN [status |-> answer.k, eq |-> answer]
        ELSE [status |-> "Ok", eq |-> answer]

\* a difference that adds the right-hand side instead of its negation
DifferencePlus(lhs, rhs, h) ==
    simplify(AddNode(simplify(lhs, h), simplify(rhs, h)), h)

\* the normalized difference of the two sides computed by solve
Difference(lhs, rhs, h) ==
    simplify(AddNode(simplify(lhs, h), Negated(simplify(rhs, h))), h)

\* a solve that hands every equation in which the variable occurs to the
\* inversion
solveAnyCount(lhs, rhs, variable, h) ==
    LET eq == Difference(lhs, rhs, h)
    IN  IF Stopped(eq) THEN [status |-> eq.k, eq |-> eq]
        ELSE IF count_occurrences(eq, variable) = 0
        THEN [status |-> "EquationMismatchError", eq |-> Panic]
        ELSE do_inverse(eq, variable, h)

\* Equation::solve
solve(lhs, rhs, variable, h) ==
    LET eq == Difference(lhs, rhs, h)
    IN  IF Stopped(eq) THEN [status |-> eq.k, eq |-> eq]
        ELSE IF count_occurrences(eq, variable) > 1
        THEN [status |-> "NotYetImplemented", eq |-> Panic]
        ELSE IF count_occurrences(eq, variable) = 0
        THEN [status |-> "EquationMismatchError", eq |-> Panic]
        ELSE do_inverse(eq, variable, h)

(***************************************************************************)
(* The simplifier as a state machine: an expression is handed to simplify, *)
(* the result to order (PartEquation::simplify), and the normalized value  *)
(* held by the PartEquation is handed to simplify again by the next        *)
(* operator or comparison that uses it.                                    *)
(***************************************************************************)
VARIABLES a, b, c, d, variable, h, g, pc, out

vars == <<a, b, c, d, variable, h, g, pc, out>>

Vars == {"x", "y"}
\* iteration orders of a map over the letters that differ on x and y
HashOrdersXY == {<<"x", "y", "P">>, <<"y", "x", "P">>}

Zero == ConstantNode(Integer(0))
Literals == {ConstantNode(Integer(i)) : i \in MinConst..MaxConst}
Leaves == Literals \cup {VariableNode(v) : v \in Vars}

\* expression trees with one operator, and with two
Trees1 == {[k |-> kind, lhs |-> l, rhs |-> r] : kind \in BinaryKinds, l \in Leaves, r \in Leaves}
          \cup {MinusNode(l) : l \in Leaves}
Trees2 == {[k |-> kind, lhs |-> t, rhs |-> l] : kind \in BinaryKinds, t \in Trees1, l \in Leaves}
          \cup {[k |-> kind, lhs |-> l, rhs |-> t] : kind \in BinaryKinds, t \in Trees1, l \in Leaves}
          \cup {MinusNode(t) : t \in Trees1}
Trees == Leaves \cup Trees1 \cup Trees2

None == [status |-> "None", eq |-> Zero]
Returned(e) == IF Stopped(e) THEN [status |-> e.k, eq |-> e]
               ELSE [status |-> "Ok", eq |-> e]

InitSimplify ==
    /\ a \in Trees
    /\ b = Zero /\ c = Zero /\ d = Zero /\ variable = "x"
    /\ h \in HashOrdersXY
    /\ g = h
    /\ pc = "raw"
    /\ out = None

\* EquationComponentType::simplify on the expression
Simplify ==
    /\ pc = "raw"
    /\ out' = Returned(simplify(a, h))
    /\ pc' = "simplified"
    /\ UNCHANGED <<a, b, c, d, variable, h, g>>

\* EquationComponentType::order on the simplified expression
Order ==
    /\ pc = "simplified" /\ out.status = "Ok"
    /\ out' = Returned(order(out.eq))
    /\ pc' = "ordered"
    /\ UNCHANGED <<a, b, c, d, variable, h, g>>

\* the normalized value is the operand of a later operator: it is simplified anew
Reuse ==
    /\ pc = "ordered" /\ out.status = "Ok"
    /\ ~TreeEq(a, out.eq)
    /\ a' = out.eq
    /\ out' = None
    /\ pc' = "raw"
    /\ UNCHANGED <<b, c, d, variable, h, g>>

NextSimplify == Simplify \/ Order \/ Reuse

SpecSimplify == InitSimplify /\ [][NextSimplify]_vars

(***************************************************************************)
(* Sums and substitutions: three PartEquation values are                   *)
(* added with the operator +, or one is substituted into another.          *)
(***************************************************************************)
X == VariableNode("x")
Y == VariableNode("y")
P == VariableNode("P")
Lit(i) == ConstantNode(Integer(i))

\* an iteration order of the maps and its reverse
HashOrdersRev == {<<"x", "y", "P">>, <<"P", "y", "x">>}

\* PartEquation values built from the letters and the literals by one or two
\* operator calls; each is the tree simplify and order return for it
Terms ==
    {X, Y, P} \cup Literals
    \cup {PartPow(X, Lit(i), <<"x">>) : i \in {MinConst, 2, MaxConst}}
    \cup {PartMul(Lit(2), X, <<"x">>), PartMul(Lit(3), P, <<"P">>), PartNeg(X, <<"x">>)}
    \cup {PartDiv(X, Lit(3), <<"x">>), PartDiv(P, Lit(2), <<"P">>)}
    \cup {PartAdd(X, Lit(2), <<"x">>), PartAdd(Y, Lit(1), <<"y">>)}
    \cup {PartAdd(X, PartPow(Y, Lit(MinConst), <<"y">>), h3) : h3 \in HashOrdersRev}

Init ==
    /\ a \in Terms /\ b \in Terms /\ c \in Terms
    /\ d = Zero
    /\ variable = "y"
    /\ h \in HashOrdersRev
    /\ g \in HashOrdersRev
    /\ pc = "operands"
    /\ out = None

\* (a + b) + c by impl ops::Add for PartEquation
Sum ==
    /\ pc = "operands"
    /\ out' = Returned(PartAdd(PartAdd(a, b, h), c, h))
    /\ pc' = "sum"
    /\ UNCHANGED <<a, b, c, d, variable, h, g>>

\* a.substitute(variable, &b)
Substitute ==
    /\ pc = "operands"
    /\ out' = Returned(PartSubstitute(a, variable, b, h))
    /\ pc' = "substituted"
    /\ UNCHANGED <<a, b, c, d, variable, h, g>>

Next == Sum \/ Substitute

Spec == Init /\ [][Next]_vars

\* substitution alone, for either letter
InitSubstitute ==
    /\ a \in Terms /\ b \in Terms
    /\ c = Zero /\ d = Zero
    /\ variable \in Vars
    /\ h \in HashOrdersRev
    /\ g = h
    /\ pc = "operands"
    /\ out = None

NextSubstitute == Substitute

SpecSubstitute == InitSubstitute /\ [][NextSubstitute]_vars

(***************************************************************************)
(* Products of three PartEquation values.                                  *)
(***************************************************************************)
\* letters, literals, powers of a letter to a literal, and sums
Factors ==
    {X, Y} \cup Literals
    \cup {PartPow(X, Lit(i), <<"x">>) : i \in MinConst..MaxConst}
    \cup {PartPow(Y, Lit(2), <<"y">>)}
    \cup {PartAdd(X, Lit(2), <<"x">>), PartAdd(Y, Lit(1), <<"y">>)}

InitProduct ==
    /\ a \in Factors /\ b \in Factors /\ c \in Factors
    /\ d = Zero
    /\ variable = "x"
    /\ h \in HashOrdersRev
    /\ g = h
    /\ pc = "operands"
    /\ out = None

\* (a * b) * c by impl ops::Mul for PartEquation
Product ==
    /\ pc = "operands"
    /\ out' = Returned(PartMul(PartMul(a, b, h), c, h))
    /\ pc' = "product"
    /\ UNCHANGED <<a, b, c, d, variable, h, g>>

NextProduct == Product

SpecProduct == InitProduct /\ [][NextProduct]_vars

(***************************************************************************)
(* Solving: two PartEquation values are made the sides of an Equation,     *)
(* which is solved for a letter.                                           *)
(***************************************************************************)
InitSolve ==
    /\ a \in Terms /\ b \in Terms
    /\ c = Zero /\ d = Zero
    /\ variable \in Vars
    /\ h \in HashOrdersRev
    /\ g = h
    /\ pc = "equation"
    /\ out = None

\* Equation::new(&a, &b).solve(variable)
Solve ==
    /\ pc = "equation"
    /\ out' = solve(a, b, variable, h)
    /\ pc' = "solved"
    /\ UNCHANGED <<a, b, c, d, variable, h, g>>

NextSolve == Solve

SpecSolve == InitSolve /\ [][NextSolve]_vars

(***************************************************************************)
(* Division of Numbers: two Numbers are divided through one of the three   *)
(* operator forms.  The Numbers are carried as ConstantNodes.              *)
(***************************************************************************)
Numbers ==
    {Integer(i) : i \in (0 - MaxConst - 2)..(MaxConst + 2)}
    \cup {Reduced("Rational", i, 2) : i \in {0 - 3, 0 - 1, 1, 3}}

InitDivide ==
    /\ a \in {ConstantNode(i) : i \in Numbers}
    /\ b \in {ConstantNode(i) : i \in Numbers}
    /\ c = Zero /\ d = Zero
    /\ variable = "x"
    /\ h = <<"x", "y", "P">> /\ g = h
    /\ pc = "numbers"
    /\ out = None

\* a / b, both owned
DivideOwned ==
    /\ pc = "numbers"
    /\ out' = Returned(Constant(NumDiv(a.num, b.num)))
    /\ pc' = "owned"
    /\ UNCHANGED <<a, b, c, d, variable, h, g>>

\* &a / &b
DivideBorrowed ==
    /\ pc = "numbers"
    /\ out' = Returned(Constant(NumDivRef(a.num, b.num)))
    /\ pc' = "borrowed"
    /\ UNCHANGED <<a, b, c, d, variable, h, g>>

\* a / j for the primitive integer j held in b
DividePrimitive ==
    /\ pc = "numbers" /\ b.num.t = "Integer"
    /\ out' = Returned(Constant(NumDivPrimitive(a.num, b.num.n)))
    /\ pc' = "primitive"
    /\ UNCHANGED <<a, b, c, d, variable, h, g>>

NextDivide == DivideOwned \/ DivideBorrowed \/ DividePrimitive

SpecDivide == InitDivide /\ [][NextDivide]_vars

(***************************************************************************)
(* Sums, differences and products of Numbers in the three representations. *)
(***************************************************************************)
Floats == {Float(1, 2), Float(0 - 3, 1)}

InitArithmetic ==
    /\ a \in {ConstantNode(i) : i \in Numbers \cup Floats}
    /\ b \in {ConstantNode(i) : i \in Numbers \cup Floats}
    /\ c = Zero /\ d = Zero
    /\ variable = "x"
    /\ h = <<"x", "y", "P">> /\ g = h
    /\ pc = "numbers"
    /\ out = None

\* a + b, and &a + &b
AddNumbers ==
    /\ pc = "numbers"
    /\ out' = Returned(Constant(NumAdd(a.num, b.num)))
    /\ pc' = "added"
    /\ UNCHANGED <<a, b, c, d, variable, h, g>>

\* a - b, and &a - &b
SubNumbers ==
    /\ pc = "numbers"
    /\ out' = Returned(Constant(NumSub(a.num, b.num)))
    /\ pc' = "subtracted"
    /\ UNCHANGED <<a, b, c, d, variable, h, g>>

\* a * b, and &a * &b
MulNumbers ==
    /\ pc = "numbers"
    /\ out' = Returned(Constant(NumMul(a.num, b.num)))
    /\ pc' = "multiplied"
    /\ UNCHANGED <<a, b, c, d, variable, h, g>>

NextArithmetic == AddNumbers \/ SubNumbers \/ MulNumbers

SpecArithmetic == InitArithmetic /\ [][NextArithmetic]_vars

(***************************************************************************)
(* Powers of Numbers: a Number is raised to a Number by Number::pow, or    *)
(* as the two constant operands of a PowNode that simplify folds.          *)
(***************************************************************************)
\* a.pow(&b)
Pow ==
    /\ pc = "numbers"
    /\ out' = Returned(Constant(NumPow(a.num, b.num)))
    /\ pc' = "power"
    /\ UNCHANGED <<a, b, c, d, variable, h, g>>

\* PowNode { base: a, exponent: b }.simplify()
FoldPow ==
    /\ pc = "numbers"
    /\ out' = Returned(simplify(PowNode(a, b), h))
    /\ pc' = "folded"
    /\ UNCHANGED <<a, b, c, d, variable, h, g>>

NextPow == Pow \/ FoldPow

SpecPow == InitDivide /\ [][NextPow]_vars

(***************************************************************************)
(* Solving again: the PartEquation a solve returned is made the left side  *)
(* of a second Equation.  This is how a PartEquation with a LogNode comes  *)
(* to exist: solving for an exponent returns one.                          *)
(***************************************************************************)
Exponentials ==
    {PartPow(Y, X, <<"x", "y">>), PartPow(X, Y, <<"x", "y">>),
     PartPow(Lit(2), X, <<"x">>), PartPow(Lit(2), Y, <<"y">>)}

\* 1/x and 2/x by impl ops::Div for PartEquation
Reciprocals == {PartDiv(Lit(i), X, <<"x">>) : i \in {1, 2}}

InitAgain ==
    /\ a \in Terms \cup Exponentials \cup Reciprocals /\ b \in Literals \cup {X, Y}
    /\ c = Zero /\ d = Zero
    /\ variable \in Vars
    /\ h \in HashOrdersRev
    /\ g = h
    /\ pc = "equation"
    /\ out = None

\* let r = Equation::new(&a, &b).solve(variable).unwrap(); the next equation
\* is Equation::new(&r, &b') to be solved for variable'
Resubmit ==
    /\ pc = "solved" /\ out.status = "Ok"
    /\ a' = out.eq
    /\ b' \in Literals
    /\ variable' \in Vars
    /\ out' = None
    /\ pc' = "resubmitted"
    /\ UNCHANGED <<c, d, h, g>>

\* Equation::new(&r, &b).solve(variable)
SolveAgain ==
    /\ pc = "resubmitted"
    /\ out' = solve(a, b, variable, h)
    /\ pc' = "resolved"
    /\ UNCHANGED <<a, b, c, d, variable, h, g>>

NextAgain == Solve \/ Resubmit \/ SolveAgain

SpecAgain == InitAgain /\ [][NextAgain]_vars

(***************************************************************************)
(* Powers: one side of the equation is x^n or n^x, the other a constant;   *)
(* the sides come in either order.                                         *)
(***************************************************************************)
PowerTerms ==
    {PartPow(X, Lit(n), <<"x">>) : n \in 2..MaxConst}
    \cup {PartPow(Lit(n), X, <<"x">>) : n \in 2..MaxConst}

Powers == {Lit(i) : i \in {4, 8, 9, 27}}

InitPowers ==
    /\ a \in PowerTerms \cup Powers /\ b \in PowerTerms \cup Powers
    /\ c = Zero /\ d = Zero
    /\ variable = "x"
    /\ h \in HashOrdersRev
    /\ g = h
    /\ pc = "equation"
    /\ out = None

SpecPowers == InitPowers /\ [][NextSolve]_vars

(***************************************************************************)
(* Linear equations a*x + b = c*x + d: the coefficients are literals and   *)
(* halves of literals, the sides are built with the operators * and +.     *)
(***************************************************************************)
Coefficients ==
    Literals \cup {PartDiv(Lit(i), Lit(2), <<"x">>) : i \in MinConst..MaxConst}

\* p*x + q by impl ops::Mul and impl ops::Add for PartEquation
Linear(p, q, hh) == PartAdd(PartMul(p, X, hh), q, hh)

InitLinear ==
    /\ a \in Coefficients /\ b \in Coefficients
    /\ c \in Coefficients /\ d \in Coefficients
    /\ variable = "x"
    /\ h \in HashOrdersRev
    /\ g = h
    /\ pc = "coefficients"
    /\ out = None

\* Equation::new(&(a*x + b), &(c*x + d)).solve('x')
SolveLinear ==
    /\ pc = "coefficients"
    /\ out' = solve(Linear(a, b, h), Linear(c, d, h), variable, h)
    /\ pc' = "solved"
    /\ UNCHANGED <<a, b, c, d, variable, h, g>>

NextLinear == SolveLinear

SpecLinear == InitLinear /\ [][NextLinear]_vars

(***************************************************************************)
(* The replay loop of do_inverse, one iteration at a time: c is the        *)
(* subtree of the difference the loop stands at (the local eq), out holds  *)
(* the running result and the plan not yet popped (anti_ops).              *)
(***************************************************************************)
\* the PartEquations with a LogNode that solving x^y = 3 and 2^y = x for y
\* returns: log_x(3) and log_2(x)
Logarithms == {LogNode(X, Lit(3)), LogNode(Lit(2), X)}

InitReplay ==
    /\ a \in Terms \cup Exponentials \cup Reciprocals \cup Logarithms
    /\ b \in Literals \cup {X, Y}
    /\ c = Zero /\ d = Zero
    /\ variable \in Vars
    /\ h \in HashOrdersRev
    /\ g = h
    /\ pc = "equation"
    /\ out = None

\* solve up to the loop: the difference is computed, the variable occurs once
\* in it, and do_inverse has made the plan
Begin ==
    /\ pc = "equation"
    /\ ~Stopped(Difference(a, b, h))
    /\ count_occurrences(Difference(a, b, h), variable) = 1
    /\ c' = Difference(a, b, h)
    /\ out' = [status |-> "Replaying", eq |-> ConstantNode(Integer(0)),
               anti_ops |-> make_anti_operations_list(Difference(a, b, h), variable).list]
    /\ pc' = "replay"
    /\ UNCHANGED <<a, b, d, variable, h, g>>

\* solve returns before the loop: the difference is not computed, or the
\* variable does not occur once in it
Reject ==
    /\ pc = "equation"
    /\ \/ Stopped(Difference(a, b, h))
       \/ count_occurrences(Difference(a, b, h), variable) # 1
    /\ out' = solve(a, b, variable, h)
    /\ pc' = "solved"
    /\ UNCHANGED <<a, b, c, d, variable, h, g>>

\* one iteration: anti_ops.pop() is applied, or InternalError is returned
Step ==
    /\ pc = "replay" /\ out.anti_ops # <<>>
    /\ LET s == Inverse(out.anti_ops[Len(out.anti_ops)], c, out.eq)
       IN  IF s.status = "Ok"
           THEN /\ c' = s.eq
                /\ out' = [status |-> "Replaying", eq |-> s.result,
                           anti_ops |-> SubSeq(out.anti_ops, 1, Len(out.anti_ops) - 1)]
                /\ pc' = "replay"
           ELSE /\ c' = c
                /\ out' = [status |-> s.status, eq |-> Panic]
                /\ pc' = "solved"
    /\ UNCHANGED <<a, b, d, variable, h, g>>

\* the plan is exhausted: Ok(result.simplify().order())
Finish ==
    /\ pc = "replay" /\ out.anti_ops = <<>>
    /\ out' = Returned(Normalize(out.eq, h))
    /\ pc' = "solved"
    /\ UNCHANGED <<a, b, c, d, variable, h, g>>

NextReplay == Begin \/ Reject \/ Step \/ Finish

SpecReplay == InitReplay /\ [][NextReplay]_vars

(***************************************************************************)
(* Quotients: one side of the equation is x / m or n / x for a rational    *)
(* constant, the other a rational constant; the sides come in either       *)
(* order.                                                                  *)
(***************************************************************************)
QuotientTerms ==
    {PartDiv(X, m, <<"x">>) : m \in {r \in Coefficients : r.num.n # 0}}
    \cup {PartDiv(n, X, <<"x">>) : n \in Coefficients}

InitQuotients ==
    /\ a \in QuotientTerms \cup Coefficients /\ b \in QuotientTerms \cup Coefficients
    /\ c = Zero /\ d = Zero
    /\ variable = "x"
    /\ h \in HashOrdersRev
    /\ g = h
    /\ pc = "equation"
    /\ out = None

SpecQuotients == InitQuotients /\ [][NextSolve]_vars

(***************************************************************************)
(* Properties of simplify and of simplify-then-order on expression trees.  *)
(***************************************************************************)

\* the result of a computation is comparable: it returned, and within the
\* magnitudes the model represents
Same(x, y) == x.k = "Unknown" \/ y.k = "Unknown" \/ TreeEq(x, y)

\* C1: simplify is idempotent: simplifying the tree simplify returned gives a
\* structurally identical tree
C1_SimplifyIdempotent ==
    (pc = "simplified" /\ out.status = "Ok") => Same(simplify(out.eq, h), out.eq)

\* C6: double negation is eliminated: simplify(MinusNode(MinusNode(e))) is the
\* tree simplify(e)
C6_DoubleNegation ==
    (pc = "simplified" /\ out.status = "Ok")
        => Same(simplify(MinusNode(MinusNode(a)), h), out.eq)

\* C7: identity elements fold away: 1*e and 1 + e - 1 normalize to the tree e
\* normalizes to, and a bare variable stays the bare VariableNode
C7_IdentityElements ==
    (pc = "ordered" /\ out.status = "Ok")
        => /\ Same(Normalize(MulNode(One, a), h), out.eq)
           /\ Same(Normalize(SubNode(AddNode(One, a), One), h), out.eq)
           /\ IsVariable(a) => out.eq = a

\* the operands of the maximal chain of kind-nodes rooted at e
RECURSIVE Operands(_, _)
Operands(kind, e) ==
    IF e.k = kind THEN Operands(kind, e.lhs) \o Operands(kind, e.rhs) ELSE <<e>>

\* every additive and every multiplicative chain in e holds at most one constant
RECURSIVE SingleConstant(_)
SingleConstant(e) ==
    /\ e.k \in {"AddNode", "MulNode"}
          => Len(SelectSeq(Operands(e.k, e), IsConstant)) <= 1
    /\ IsBinary(e) => SingleConstant(e.lhs) /\ SingleConstant(e.rhs)
    /\ e.k = "MinusNode" => SingleConstant(e.value)

\* C8: in the output of simplify every additive chain and every multiplicative
\* chain has at most one ConstantNode among its operands
C8_SingleConstant ==
    (pc = "simplified" /\ out.status = "Ok") => SingleConstant(out.eq)

(***************************************************************************)
(* Properties of the operators + and * of PartEquation.                    *)
(***************************************************************************)
\* the six orders in which three operands can be combined
Permutations3(p, q, r) ==
    {<<p, q, r>>, <<p, r, q>>, <<q, p, r>>, <<q, r, p>>, <<r, p, q>>, <<r, q, p>>}

\* PartEquation == on two values, one built under the maps h, one under g
Equal(l, r) == Stopped(l) \/ Stopped(r) \/ Stopped(Normalize(l, h))
               \/ Stopped(Normalize(r, g)) \/ PartEq(l, r, h, g)

\* C2: every permutation of the sum a + b + c compares equal to it
C2_SumPermutations ==
    (pc = "sum" /\ out.status = "Ok")
        => \A s \in Permutations3(a, b, c) :
              Equal(out.eq, PartAdd(PartAdd(s[1], s[2], g), s[3], g))

\* C3: every permutation of the product a * b * c compares equal to it
C3_ProductPermutations ==
    (pc = "product" /\ out.status = "Ok")
        => \A s \in Permutations3(a, b, c) :
              Equal(out.eq, PartMul(PartMul(s[1], s[2], g), s[3], g))

\* the coefficients (exponents, in a product) of the like terms of letter v
\* among the nodes s
RECURSIVE LikeCoefs(_, _, _)
LikeCoefs(kind, s, v) ==
    IF s = <<>> THEN <<>>
    ELSE (IF LikeTerm(kind, Head(s)).var = v THEN <<LikeTerm(kind, Head(s)).coef>> ELSE <<>>)
         \o LikeCoefs(kind, Tail(s), v)

\* the operands that a + b + c (a * b * c) hands to the chain
ChainOperands(kind) == Operands(kind, a) \o Operands(kind, b) \o Operands(kind, c)

IsZero(e) == IsConstant(e) /\ NumEq(e.num, Integer(0))

\* C4: in an additive chain the like terms of a letter are merged into one
\* term whose coefficient is the sum of theirs, and the result has no letter
\* with two like terms
C4_AdditiveLikeTerms ==
    /\ (pc = "sum" /\ out.status = "Ok")
          => \A v \in {"x", "y", "P"} :
                LET given == LikeCoefs("AddNode", ChainOperands("AddNode"), v)
                    merged == LikeCoefs("AddNode", Operands("AddNode", out.eq), v)
                    total == FoldNum("AddNode", Integer(0), given)
                IN  (given # <<>> /\ ~NumEq(total, Integer(0)))
                       => Len(merged) = 1 /\ NumEq(merged[1], total)
    /\ (pc \in {"sum", "substituted"} /\ out.status = "Ok")
          => \A v \in {"x", "y", "P"} :
                Len(LikeCoefs("AddNode", Operands("AddNode", out.eq), v)) <= 1

\* C5: in a multiplicative chain the bare occurrences of a letter and its
\* powers to a constant are merged into one factor whose exponent is the sum
\* of theirs, a bare letter counting as exponent 1
C5_MultiplicativeLikeTerms ==
    (pc = "product" /\ out.status = "Ok" /\ ~IsZero(out.eq))
        => \A v \in {"x", "y", "P"} :
              LET given == LikeCoefs("MulNode", ChainOperands("MulNode"), v)
                  merged == LikeCoefs("MulNode", Operands("MulNode", out.eq), v)
              IN  given # <<>>
                     => /\ Len(merged) = 1
                        /\ NumEq(merged[1], FoldNum("AddNode", Integer(0), given))

\* x^3 * x has been multiplied out to x^4
C5_Witness ==
    /\ pc = "product" /\ out.status = "Ok"
    /\ a = PowNode(X, Lit(MaxConst)) /\ b = X /\ c = Y
    /\ Operands("MulNode", out.eq) = <<PowNode(X, Lit(MaxConst + 1)), Y>>

(***************************************************************************)
(* Properties of Equation::solve.                                          *)
(***************************************************************************)
\* C9: a*x + b = c*x + d with a # c solves to Ok with the single constant
\* (d - b)/(a - c)
C9_LinearSolve ==
    (pc = "solved" /\ ~NumEq(a.num, c.num))
        => /\ out.status = "Ok"
           /\ IsConstant(out.eq)
           /\ NumEq(out.eq.num, NumDiv(NumSub(d.num, b.num), NumSub(a.num, c.num)))

\* 3 = x*2 has been solved to 3/2
C9_Witness ==
    /\ pc = "solved"
    /\ a = Lit(0) /\ b = Lit(3) /\ c = Lit(2) /\ d = Lit(0)
    /\ out = [status |-> "Ok", eq |-> ConstantNode(Rational(3, 2))]

\* C10: with n the occurrences of the variable in the normalized difference,
\* solve returns EquationMismatchError exactly when n = 0, NotYetImplemented
\* exactly when n > 1, and the outcome of the inversion only when n = 1
C10_SolveOutcome ==
    (pc = "solved" /\ ~Stopped(Difference(a, b, h)))
        => LET n == count_occurrences(Difference(a, b, h), variable)
           IN  /\ (out.status = "EquationMismatchError") <=> (n = 0)
               /\ (out.status = "NotYetImplemented") <=> (n > 1)
               /\ (out = do_inverse(Difference(a, b, h), variable, h)) <=> (n = 1)

\* solve(y = 3, 'x') has returned EquationMismatchError
C10_Witness ==
    /\ pc = "solved"
    /\ a = Y /\ b = Lit(3) /\ variable = "x"
    /\ out.status = "EquationMismatchError"

\* the equation x + x = 3 has been solved for x
SolvedTwoX ==
    pc = "solved" /\ a = PartAdd(X, X, h) /\ b = Lit(3) /\ variable = "x"

\* C11: solve(x + x = 3, 'x') fails with NotYetImplemented
C11_TwoOccurrences == SolvedTwoX => out.status = "NotYetImplemented"

\* C11, as the code has it: x + x is held as x*2, the variable occurs once in
\* the normalized difference, and solve returns Ok with the constant 3/2
C11_TwoOccurrencesSolved ==
    SolvedTwoX
        => /\ count_occurrences(Difference(a, b, h), variable) = 1
           /\ out.status = "Ok" /\ IsConstant(out.eq)
           /\ NumEq(out.eq.num, Rational(3, 2))

\* x + x = 3 has been solved and a result returned
C11_Witness == SolvedTwoX /\ a = MulNode(X, Lit(2)) /\ out.status = "Ok"

\* C12: solve never returns InternalError: every anti-operation of the plan
\* matches the node kind the replay is at
C12_NoInternalError ==
    pc \in {"solved", "resolved"} => out.status # "InternalError"

\* C13: an Integer divided by a nonzero Integer through any of Number's
\* division operators is the exact quotient, never a truncated Integer
C13_DivisionExact ==
    (/\ pc \in {"owned", "borrowed", "primitive"}
     /\ a.num.t = "Integer" /\ b.num.t = "Integer" /\ b.num.n # 0)
        => /\ out.status = "Ok"
           /\ out.eq.num.n * b.num.n = a.num.n * out.eq.num.d

\* C14: simplify and order are total: each returns a tree for every
\* expression tree, and neither aborts nor panics
C14_Total == pc \in {"simplified", "ordered"} => out.status # "Panic"

\* C15: a division by the Number zero that arises inside solve, as in
\* solve(1/x = 0, 'x'), reaches the caller as a ZeroDivisionError result
C15_ZeroDivisionReported ==
    (/\ pc = "solved" /\ a \in Reciprocals /\ b = Zero /\ variable = "x")
        => out.status = "ZeroDivisionError"

\* C16: simplify is a function of its input tree: an evaluation under any
\* other iteration order of the per-variable hash maps returns the same tree
C16_Deterministic ==
    pc = "simplified"
        => \A h2 \in HashOrdersXY : out = Returned(simplify(a, h2))

\* s is e with every VariableNode named v replaced by r, and nothing else changed
RECURSIVE IsSubstitution(_, _, _, _)
IsSubstitution(e, s, v, r) ==
    CASE e.k = "VariableNode" -> s = (IF e.name = v THEN r ELSE e)
      [] e.k = "ConstantNode" -> s = e
      [] e.k = "MinusNode" -> s.k = "MinusNode" /\ IsSubstitution(e.value, s.value, v, r)
      [] OTHER -> /\ s.k = e.k
                  /\ IsSubstitution(e.lhs, s.lhs, v, r)
                  /\ IsSubstitution(e.rhs, s.rhs, v, r)

\* C17: a.substitute(v, b) returns order(simplify(a[v := b])); when b does
\* not contain v the result has no occurrence of v, and when a does not
\* contain v the result is order(simplify(a))
C17_Substitute ==
    pc = "substituted"
        => LET s == substitute(a, variable, b)
           IN  /\ IsSubstitution(a, s, variable, b)
               /\ out = Returned(order(simplify(s, h)))
               /\ (count_occurrences(b, variable) = 0 /\ out.status = "Ok")
                      => count_occurrences(out.eq, variable) = 0
               /\ count_occurrences(a, variable) = 0
                      => out = Returned(order(simplify(a, h)))

\* a sum holding the variable has had a term without the variable put in its place
C17_Witness ==
    /\ pc = "substituted" /\ out.status = "Ok"
    /\ a.k = "AddNode" /\ count_occurrences(a.rhs, variable) = 1
    /\ b.k = "MulNode" /\ count_occurrences(b, variable) = 0
    /\ count_occurrences(out.eq, variable) = 0

\* C18: PartEquation == is an equivalence relation: a sum compares equal to
\* itself, and == is symmetric and transitive on the operands; the left side
\* of a comparison is normalized under the maps h, the right side under g
C18_Equivalence ==
    (pc = "sum" /\ out.status = "Ok")
        => /\ Equal(out.eq, out.eq)
           /\ PartEq(a, b, h, g) => PartEq(b, a, h, g)
           /\ (PartEq(a, b, h, g) /\ PartEq(b, c, h, g)) => PartEq(a, c, h, g)

(***************************************************************************)
(* The value of an expression under an assignment of rationals to its      *)
(* letters, by the arithmetic of the rationals; UnknownNumber where the    *)
(* expression is undefined or its value is not a represented rational.     *)
(***************************************************************************)
\* b^e for an integer e: 1 for e = 0, the reciprocal for e < 0
RECURSIVE Power(_, _)
Power(base, e) ==
    IF e = 0 THEN IF base.n = 0 THEN UnknownNumber ELSE Integer(1)
    ELSE IF e < 0 THEN IF base.n = 0 THEN UnknownNumber
                       ELSE NumDiv(Integer(1), Power(base, 0 - e))
    ELSE IF e = 1 THEN base
    ELSE NumMul(base, Power(base, e - 1))

Defined(x) == IF IsExact(x) THEN x ELSE UnknownNumber

RECURSIVE Value(_, _)
Value(e, env) ==
    CASE e.k = "ConstantNode" -> Defined(e.num)
      [] e.k = "VariableNode" -> IF e.name \in DOMAIN env THEN env[e.name] ELSE UnknownNumber
      [] e.k = "MinusNode" -> Defined(NumNeg(Value(e.value, env)))
      [] e.k = "AddNode" -> Defined(NumAdd(Value(e.lhs, env), Value(e.rhs, env)))
      [] e.k = "SubNode" -> Defined(NumSub(Value(e.lhs, env), Value(e.rhs, env)))
      [] e.k = "MulNode" -> Defined(NumMul(Value(e.lhs, env), Value(e.rhs, env)))
      [] e.k = "DivNode" -> Defined(NumDiv(Value(e.lhs, env), Value(e.rhs, env)))
      [] e.k = "PowNode" ->
            LET base == Value(e.lhs, env)
                x == Value(e.rhs, env)
            IN  IF IsExact(base) /\ IsExact(x) /\ x.d = 1 /\ Abs(x.n) <= MaxConst + 1
                THEN Defined(Power(base, x.n))
                ELSE UnknownNumber
      [] OTHER -> UnknownNumber

\* assignments of an integer or a proper fraction to the letters
Assignments == [Vars -> {Integer(2), Rational(0 - 1, 2)}]

\* C19: simplify, and order after it, preserve the value of the expression
\* under every assignment for which the input is defined
C19_ValuePreserved ==
    (pc \in {"simplified", "ordered"} /\ out.status = "Ok")
        => \A env \in Assignments :
              LET i == Value(a, env)
                  o == Value(out.eq, env)
              IN  (IsExact(i) /\ IsExact(o)) => NumEq(i, o)

\* some AddNode of e has a ConstantNode 0 as an operand, or some MulNode of e
\* has a ConstantNode 1 as an operand
RECURSIVE HasNeutralOperand(_)
HasNeutralOperand(e) ==
    LET neutral(kind, o) ==
            /\ IsConstant(o)
            /\ \/ kind = "AddNode" /\ NumEq(o.num, Integer(0))
               \/ kind = "MulNode" /\ NumEq(o.num, Integer(1))
    IN  CASE e.k = "MinusNode" -> HasNeutralOperand(e.value)
          [] IsBinary(e) -> \/ neutral(e.k, e.lhs) \/ neutral(e.k, e.rhs)
                            \/ HasNeutralOperand(e.lhs) \/ HasNeutralOperand(e.rhs)
          [] OTHER -> FALSE

\* C20: the output of simplify has no AddNode with a constant 0 operand and
\* no MulNode with a constant 1 operand
C20_NeutralDropped ==
    (pc = "simplified" /\ out.status = "Ok") => ~HasNeutralOperand(out.eq)

\* some node of e, at any depth, is a SubNode
RECURSIVE HasSubNode(_)
HasSubNode(e) ==
    CASE e.k = "SubNode" -> TRUE
      [] e.k = "MinusNode" -> HasSubNode(e.value)
      [] IsBinary(e) -> HasSubNode(e.lhs) \/ HasSubNode(e.rhs)
      [] OTHER -> FALSE

\* C21: the output of simplify contains no SubNode at any depth, and the
\* plan of anti-operations for it, for either letter, contains neither
\* AddLHS nor AddRHS
C21_NoSubNode ==
    (pc = "simplified" /\ out.status = "Ok")
        => /\ ~HasSubNode(out.eq)
           /\ \A v \in Vars :
                 LET plan == make_anti_operations_list(out.eq, v).list
                 IN  \A i \in DOMAIN plan : plan[i] \notin {"AddLHS", "AddRHS"}

\* a subtraction with the letter x in its subtrahend has been simplified to a
\* tree that still holds x
C21_Witness ==
    /\ pc = "simplified" /\ out.status = "Ok"
    /\ a.k = "SubNode" /\ count_occurrences(a.rhs, "x") = 1
    /\ count_occurrences(out.eq, "x") = 1
    /\ make_anti_operations_list(out.eq, "x").list # <<>>

\* C22: simplify of a multiplicative chain that has the constant 0 among its
\* operands returns exactly ConstantNode(0), whatever the other factors are
C22_ZeroShortCircuit ==
    (/\ pc = "simplified" /\ a.k = "MulNode"
     /\ \E i \in DOMAIN Operands("MulNode", a) : IsZero(Operands("MulNode", a)[i]))
        => \/ out.status = "Unknown"
           \/ out.status = "Ok" /\ out.eq = Zero

\* a is (x^y)^z with leaves x, y, z, where x^y simplifies to itself and z is
\* not the constant 1
NestedPower ==
    /\ a.k = "PowNode" /\ a.lhs.k = "PowNode"
    /\ simplify(a.lhs, h) = a.lhs
    /\ ~(IsConstant(a.rhs) /\ NumEq(a.rhs.num, Integer(1)))

\* C23: simplify(Pow(Pow(x, y), z)) is Pow(x, Mul(lhs = z, rhs = y)): the
\* outer exponent is the left operand of the new exponent product
C23_NestedPower ==
    (pc = "simplified" /\ NestedPower)
        => out = Returned(PowNode(a.lhs.lhs, MulNode(a.rhs, a.lhs.rhs)))

\* C24: for an Integer or a non-integer Rational base and an Integer exponent
\* e >= 0, Number::pow and the constant fold of a PowNode return base^e in the
\* representation of the base (so b^0 = 1 and b^1 = b)
C24_ExactPower ==
    (/\ pc \in {"power", "folded"}
     /\ a.num.t \in {"Integer", "Rational"}
     /\ b.num.t = "Integer" /\ b.num.n >= 0
     /\ IsExact(Power(a.num, b.num.n)))
        => /\ out.status = "Ok" /\ IsConstant(out.eq)
           /\ NumEq(out.eq.num, Power(a.num, b.num.n))
           /\ out.eq.num.t = a.num.t

\* the place of a representation in the order Integer < Rational < Float
Width(t) == CASE t = "Integer" -> 0 [] t = "Rational" -> 1 [] t = "Float" -> 2

\* the numerator and the denominator of x op y by the arithmetic of fractions
Exact(op, x, y) ==
    CASE op = "added" -> <<x.n * y.d + y.n * x.d, x.d * y.d>>
      [] op = "subtracted" -> <<x.n * y.d - y.n * x.d, x.d * y.d>>
      [] op = "multiplied" -> <<x.n * y.n, x.d * y.d>>

\* C25: the result of add, sub and mul of two Numbers has the wider of the
\* two operand representations, and for Integer and Rational operands its
\* value is the exact result
C25_Promotion ==
    pc \in {"added", "subtracted", "multiplied"}
        => /\ out.status = "Ok" /\ IsConstant(out.eq)
           /\ Width(out.eq.num.t)
                 = (IF Width(a.num.t) >= Width(b.num.t)
                    THEN Width(a.num.t) ELSE Width(b.num.t))
           /\ (a.num.t # "Float" /\ b.num.t # "Float")
                 => out.eq.num.n * Exact(pc, a.num, b.num)[2]
                      = Exact(pc, a.num, b.num)[1] * out.eq.num.d

\* an Integer and a proper fraction have been added to a Rational
C25_Witness ==
    /\ pc = "added" /\ a.num.t = "Integer" /\ a.num.n # 0
    /\ b.num.t = "Rational" /\ b.num.d = 2
    /\ out.eq.num.t = "Rational" /\ out.eq.num.d = 2

\* what solve returns for the equation p = k (or k = p), p a power of or to
\* the letter x and k a constant: the root of k, or the unevaluated logarithm
PowerInverted(p, k) ==
    IF p.lhs = X
    THEN /\ make_anti_operations_list(p, "x").list = <<"PowRHS">>
         /\ out.status \in {"Ok", "Unknown"}
         /\ out.status = "Ok"
               => /\ IsConstant(out.eq)
                  /\ NumEq(Power(out.eq.num, p.rhs.num.n), k.num)
    ELSE /\ make_anti_operations_list(p, "x").list = <<"LogLHS">>
         /\ out.status = "Ok"
         /\ TreeEq(out.eq, LogNode(p.lhs, k))

\* C26: with the unknown as the base of a power, solve returns the constant
\* raised to the reciprocal of the exponent (9 = x^2 gives 3); with the
\* unknown as the exponent it returns LogNode{base, constant} unevaluated
C26_PowerInversion ==
    pc = "solved"
        => /\ (a \in PowerTerms /\ b \in Powers) => PowerInverted(a, b)
           /\ (b \in PowerTerms /\ a \in Powers) => PowerInverted(b, a)

\* 9 = x^2 has been solved to the constant 3
C26_Witness ==
    /\ pc = "solved" /\ a = Lit(9) /\ b = PowNode(X, Lit(2))
    /\ out.status = "Ok" /\ IsConstant(out.eq) /\ NumEq(out.eq.num, Integer(3))

\* solve returned the normal form of e
Solved(e) ==
    out.status = "Unknown" \/ (out.status = "Ok" /\ Same(out.eq, Normalize(e, h)))

\* C27: for an equation Log{base, argument} = k with the unknown as the base
\* solve returns argument ^ (1/k), with the unknown as the argument it
\* returns base ^ k, and the outcome is Ok in both cases
C27_LogInversion ==
    (pc = "resolved" /\ a.k = "LogNode" /\ IsConstant(b))
        => /\ (a.lhs = VariableNode(variable) /\ count_occurrences(a.rhs, variable) = 0
                  /\ ~IsZero(b))
                 => Solved(PowNode(a.rhs, DivNode(One, b)))
           /\ (a.rhs = VariableNode(variable) /\ count_occurrences(a.lhs, variable) = 0)
                 => Solved(PowNode(a.lhs, b))

\* what solve returns for the equation p = k (or k = p), p being x / m or
\* n / x and k a constant: k * m, and n / k for k other than 0
QuotientInverted(p, k) ==
    IF p.lhs = X
    THEN /\ out.status = "Ok" /\ IsConstant(out.eq)
         /\ NumEq(out.eq.num, NumMul(k.num, p.rhs.num))
    ELSE ~IsZero(k)
            => /\ out.status = "Ok" /\ IsConstant(out.eq)
               /\ out.eq.num.n * k.num.n * p.lhs.num.d
                     = p.lhs.num.n * k.num.d * out.eq.num.d

\* C28: solving x / m = k returns k * m (3 = x/2 gives 6) and solving
\* n / x = k returns n / k, the numerator divided by the running result
C28_DivisionInversion ==
    pc = "solved"
        => /\ (a \in QuotientTerms /\ b \in Coefficients) => QuotientInverted(a, b)
           /\ (b \in QuotientTerms /\ a \in Coefficients) => QuotientInverted(b, a)

\* 3 = x/2 has been solved to the constant 6
C28_Witness ==
    /\ pc = "solved" /\ a = Lit(3) /\ b = DivNode(X, Lit(2))
    /\ out.status = "Ok" /\ IsConstant(out.eq) /\ NumEq(out.eq.num, Integer(6))

\* the position of the first greatest weight in the sequence of terms s
RECURSIVE FirstGreatest(_, _, _)
FirstGreatest(s, best, j) ==
    IF j > Len(s) THEN best
    ELSE FirstGreatest(s,
                       IF NumLt(calculate_weight(s[best]), calculate_weight(s[j]))
                       THEN j ELSE best,
                       j + 1)

\* s sorted by descending weight, terms of equal weight in their order in s
RECURSIVE StableSorted(_)
StableSorted(s) ==
    IF s = <<>> THEN <<>>
    ELSE LET i == FirstGreatest(s, 1, 2)
         IN  <<s[i]>> \o StableSorted(SubSeq(s, 1, i - 1) \o SubSeq(s, i + 1, Len(s)))

\* the chain that the closing order of (a + b) + c is handed
SumChain == simplify(AddNode(PartAdd(a, b, h), c), h)

\* C29: order sorts stably: the terms of the additive chain it returns are the
\* terms of its input chain by descending weight, terms of equal weight in
\* the order they had in the input
C29_StableOrder ==
    (pc = "sum" /\ out.status = "Ok" /\ SumChain.k = "AddNode")
        => Operands("AddNode", out.eq)
              = StableSorted(separate("AddNode", SumChain))

\* the number of nodes above the single occurrence of the letter v in e
RECURSIVE Depth(_, _)
Depth(e, v) ==
    CASE e.k = "MinusNode" -> 1 + Depth(e.value, v)
      [] IsBinary(e) -> 1 + (IF count_occurrences(e.lhs, v) > 0
                             THEN Depth(e.lhs, v) ELSE Depth(e.rhs, v))
      [] OTHER -> 0

\* C30: during the replay the current subtree holds the one occurrence of the
\* variable, the plan entries not yet popped are as many as the depth of the
\* occurrence in it (at the start: in the difference d), the subtree is the
\* VariableNode itself when the plan is exhausted, and what the loop then
\* returns is what solve returns
C30_ReplayOnPath ==
    /\ pc = "replay"
          => /\ count_occurrences(c, variable) = 1
             /\ Len(out.anti_ops) = Depth(c, variable)
             /\ out.anti_ops = <<>> => c = VariableNode(variable)
    /\ pc = "solved" => out = solve(a, b, variable, h)

\* the replay has gone down two nodes and stands at the variable, its plan exhausted
C30_Witness ==
    /\ pc = "replay" /\ out.anti_ops = <<>>
    /\ c = VariableNode(variable)
    /\ Depth(Difference(a, b, h), variable) >= 2
====
